---- MODULE Spec2Model ----
(***************************************************************************)
(* bbkt: credential store, profile resolution and capability gating.       *)
(*                                                                         *)
(* State: the credentials file on disk, the wall clock, and the process    *)
(* invocation that ran last (its environment, the store it loaded, the     *)
(* credential / client / report it produced and, for `bbkt mcp`, the tools *)
(* its server registered and the API call a tool request made).            *)
(***************************************************************************)
EXTENDS Integers, Sequences, FiniteSets, TLC

VARIABLES
    file,      \* ~/.config/bbkt/credentials.json
    now,       \* wall clock, seconds
    cmd,       \* entry point the last invocation ran
    env,       \* its process environment
    localRepo, \* what GetLocalRepoInfo returns in its working directory
    loaded,    \* what LoadProfileStore returned to it
    res,       \* its outcome
    tokenScopes, \* scopes the token was found to grant (Client.Scopes)
    required,  \* capability asked of hasRequiredScope
    granted,   \* its answer
    server,    \* the MCP server it built (bbkt mcp)
    lastCall,  \* API method the last tool request invoked
    arg,       \* what the function called last was given
    inflight,  \* tool requests the server has received and not yet answered
    writers    \* processes running SaveProfile at the same time, by step

vars == <<file, now, cmd, env, localRepo, loaded, res, tokenScopes, required,
          granted, server, lastCall, arg, inflight, writers>>

-----------------------------------------------------------------------------
(* Bounds *)

MaxWorkspaces == 2    \* length of an accessibleWorkspaces cache
MaxRemotes == 2       \* lines of `git remote -v` output
MaxDisabledLen == 4   \* pieces of the BITBUCKET_DISABLED_TOOLS value
MaxScopes == 2        \* scopes granted to a token
MaxClock == 1         \* seconds the clock runs
MaxDrift == 3         \* seconds around the expiry instant that are looked at
MaxInflight == 2      \* tool requests a server handles at the same time

-----------------------------------------------------------------------------
(* Credentials and the profile store *)

AuthTypeAPIToken == "api_token"
AuthTypeOAuth == "oauth"

ExpiryBufferSecs == 300

\* zero value of the Credentials struct
ZeroCreds ==
    [ProfileName |-> "", AuthType |-> "", CreatedAt |-> 0,
     Email |-> "", APIToken |-> "",
     AccessToken |-> "", RefreshToken |-> "", ExpiresIn |-> 0, Scopes |-> "",
     AccessibleWorkspaces |-> <<>>]

\* a nil *Credentials
NoCreds == [ZeroCreds EXCEPT !.ProfileName = "<nil>"]

EmptyProfiles == [n \in {} |-> ZeroCreds]

\* a nil *ProfileStore
NoStore == [ActiveProfile |-> "<nil>", Profiles |-> EmptyProfiles]

IsOAuth(c) == c.AuthType = AuthTypeOAuth

IsAPIToken(c) == c.AuthType = AuthTypeAPIToken

\* time.Now().After(expiry.Add(-5 * time.Minute))
IsExpired(c, t) ==
    IF ~IsOAuth(c) THEN FALSE
    ELSE t > (c.CreatedAt + c.ExpiresIn) - ExpiryBufferSecs

\* File contents.  kind: "absent" (no file), "malformed" (not a JSON
\* object), "legacy" (a JSON object without a "profiles" key, read as one
\* bare Credentials), "store" (a JSON object with a "profiles" key).
AbsentFile ==
    [kind |-> "absent", active |-> "", profiles |-> EmptyProfiles, bare |-> ZeroCreds]

MalformedFile == [AbsentFile EXCEPT !.kind = "malformed"]

LegacyFile(c) == [AbsentFile EXCEPT !.kind = "legacy", !.bare = c]

StoreFile(a, p) == [AbsentFile EXCEPT !.kind = "store", !.active = a, !.profiles = p]

\* a serialisation that leaves the refresh token out as well
MarshalCreds_OmitsRefreshToken(c) == [c EXCEPT !.ProfileName = "", !.RefreshToken = ""]

\* json: ProfileName is tagged `json:"-"` and is not written
MarshalCreds(c) == [c EXCEPT !.ProfileName = ""]

\* json.MarshalIndent(store) + os.WriteFile
SaveProfileStore(store) ==
    StoreFile(store.ActiveProfile,
              [n \in DOMAIN store.Profiles |-> MarshalCreds(store.Profiles[n])])

\* what the Go runtime reports when `creds.ProfileName = name` meets a nil
\* creds: the process stops there
NilDereference == "panic: invalid memory address or nil pointer dereference"

\* a load that migrates in memory only and leaves the legacy file as it is
LoadProfileStore_NoMigrationSave(f) ==
    CASE f.kind = "absent" ->
           [err |-> "reading credentials file", store |-> NoStore, file |-> f]
      [] f.kind = "malformed" ->
           [err |-> "parsing credentials file", store |-> NoStore, file |-> f]
      [] f.kind = "legacy" ->
           [err |-> "",
            store |-> [ActiveProfile |-> "default",
                       Profiles |-> [n \in {"default"} |->
                                       [f.bare EXCEPT !.ProfileName = "default"]]],
            file |-> f]
      [] OTHER ->
           [err |-> "",
            store |-> [ActiveProfile |-> f.active,
                       Profiles |-> [n \in DOMAIN f.profiles |->
                                       [f.profiles[n] EXCEPT !.ProfileName = n]]],
            file |-> f]

\* LoadProfileStore: the returned store (or error) and the file it leaves.
\* A `null` in the profiles object unmarshals to a nil *Credentials (NoCreds).
LoadProfileStore(f) ==
    CASE f.kind = "absent" ->
           [err |-> "reading credentials file", store |-> NoStore, file |-> f]
      [] f.kind = "malformed" ->
           [err |-> "parsing credentials file", store |-> NoStore, file |-> f]
      [] f.kind = "legacy" ->
           LET oldCreds == [f.bare EXCEPT !.ProfileName = "default"]
               store == [ActiveProfile |-> "default",
                         Profiles |-> [n \in {"default"} |-> oldCreds]]
           IN [err |-> "", store |-> store, file |-> SaveProfileStore(store)]
      [] f.kind = "store" /\ \E n \in DOMAIN f.profiles : f.profiles[n] = NoCreds ->
           [err |-> NilDereference, store |-> NoStore, file |-> f]
      [] OTHER ->
           [err |-> "",
            store |-> [ActiveProfile |-> f.active,
                       Profiles |-> [n \in DOMAIN f.profiles |->
                                       [f.profiles[n] EXCEPT !.ProfileName = n]]],
            file |-> f]

\* a save that makes the saved profile the active one every time
SaveProfile_AlwaysActivates(f, creds0) ==
    LET creds == IF creds0.ProfileName = ""
                 THEN [creds0 EXCEPT !.ProfileName = "default"] ELSE creds0
        l == LoadProfileStore(f)
        store == IF l.err # "" THEN [ActiveProfile |-> "", Profiles |-> EmptyProfiles]
                 ELSE l.store
        profiles == [n \in DOMAIN store.Profiles \cup {creds.ProfileName} |->
                       IF n = creds.ProfileName THEN creds ELSE store.Profiles[n]]
    IN SaveProfileStore([ActiveProfile |-> creds.ProfileName, Profiles |-> profiles])

\* SaveProfile: the file it leaves
SaveProfile(f, creds0) ==
    LET creds == IF creds0.ProfileName = ""
                 THEN [creds0 EXCEPT !.ProfileName = "default"] ELSE creds0
        l == LoadProfileStore(f)
        store == IF l.err # "" THEN [ActiveProfile |-> "", Profiles |-> EmptyProfiles]
                 ELSE l.store
        profiles == [n \in DOMAIN store.Profiles \cup {creds.ProfileName} |->
                       IF n = creds.ProfileName THEN creds ELSE store.Profiles[n]]
        active == IF store.ActiveProfile = "" THEN creds.ProfileName
                  ELSE store.ActiveProfile
    IN IF l.err = NilDereference THEN f
       ELSE SaveProfileStore([ActiveProfile |-> active, Profiles |-> profiles])

-----------------------------------------------------------------------------
(* Local repository context *)

Workspaces == {"acme", "Acme", "beta"}

\* simple case folding of the workspace slugs in use
Fold(s) == IF s = "Acme" THEN "acme" ELSE s

\* a comparison that respects case
EqualFold_Exact(a, b) == a = b

\* strings.EqualFold
EqualFold(a, b) == Fold(a) = Fold(b)

\* a line of `git remote -v`: the host of its URL and, for a Bitbucket URL,
\* the path segment the regular expressions capture as the workspace
Remotes ==
    [host : {"bitbucket.org"}, workspace : {"acme", "beta"}]
    \cup [host : {"github.com", "example.com"}, workspace : {""}]

NotARepo == <<[host |-> "<exec error>", workspace |-> ""]>>

RECURSIVE FirstBitbucket(_)
FirstBitbucket(lines) ==
    IF lines = <<>> THEN ""
    ELSE IF Head(lines).host = "bitbucket.org" THEN Head(lines).workspace
    ELSE FirstBitbucket(Tail(lines))

\* GetLocalRepoInfo: workspace of the first Bitbucket remote, else an error
GetLocalRepoInfo(lines) ==
    IF lines = NotARepo
    THEN [workspace |-> "", err |-> "not a git repository or no remotes configured"]
    ELSE IF FirstBitbucket(lines) # ""
    THEN [workspace |-> FirstBitbucket(lines), err |-> ""]
    ELSE IF \E i \in 1..Len(lines) : lines[i].host = "github.com"
    THEN [workspace |-> "", err |-> "detected a GitHub repository"]
    ELSE [workspace |-> "", err |-> "no Bitbucket remotes found in the local repository"]

\* the invocation has no use for the working directory
NotConsulted == [workspace |-> "", err |-> "<not called>"]

-----------------------------------------------------------------------------
(* Profile resolution *)

\* the profiles whose accessibleWorkspaces cache holds ws, ignoring case
ContextMatches(store, ws) ==
    {n \in DOMAIN store.Profiles :
        \E i \in 1..Len(store.Profiles[n].AccessibleWorkspaces) :
            EqualFold(store.Profiles[n].AccessibleWorkspaces[i], ws)}

\* tier 2 of LoadCredentials: the profiles the local workspace selects
ContextTier(store, info) ==
    IF info.err = "" /\ info.workspace # ""
    THEN {store.Profiles[n] : n \in ContextMatches(store, info.workspace)}
    ELSE {}

Found(c) == [err |-> "", creds |-> c]

Failed(e) == [err |-> e, creds |-> NoCreds]

\* tier 3 without the "use whatever we have" recovery
DefaultTier_NoRecovery(store) ==
    IF store.ActiveProfile \in DOMAIN store.Profiles
    THEN {Found(store.Profiles[store.ActiveProfile])}
    ELSE {Failed("active profile not found in store, and no other profiles found")}

\* tier 3 of LoadCredentials: the active profile, else any profile
DefaultTier(store) ==
    IF store.ActiveProfile \in DOMAIN store.Profiles
    THEN {Found(store.Profiles[store.ActiveProfile])}
    ELSE IF DOMAIN store.Profiles # {}
    THEN {Found(store.Profiles[n]) : n \in DOMAIN store.Profiles}
    ELSE {Failed("active profile not found in store, and no other profiles found")}

\* resolution that falls through to the other tiers when the override names
\* no profile
ResolveProfile_FallThrough(store, override, info) ==
    IF override # "" /\ override \in DOMAIN store.Profiles
    THEN {Found(store.Profiles[override])}
    ELSE IF ContextTier(store, info) # {}
    THEN {Found(c) : c \in ContextTier(store, info)}
    ELSE DefaultTier(store)

\* resolution that tries the working directory before the override
ResolveProfile_ContextFirst(store, override, info) ==
    IF ContextTier(store, info) # {}
    THEN {Found(c) : c \in ContextTier(store, info)}
    ELSE IF override # ""
    THEN IF override \in DOMAIN store.Profiles
         THEN {Found(store.Profiles[override])}
         ELSE {Failed("override profile not found in store")}
    ELSE DefaultTier(store)

\* the three tiers of LoadCredentials over a loaded store: every result it
\* can return (Go ranges over the profile map in an unspecified order)
ResolveProfile(store, override, info) ==
    IF override # ""
    THEN IF override \in DOMAIN store.Profiles
         THEN {Found(store.Profiles[override])}
         ELSE {Failed("override profile not found in store")}
    ELSE IF ContextTier(store, info) # {}
    THEN {Found(c) : c \in ContextTier(store, info)}
    ELSE DefaultTier(store)

\* LoadCredentials: every result it can return, with the store it loaded,
\* the file it left and the local repository it ran in
LoadCredentials(f, override, lines) ==
    LET l == LoadProfileStore(f)
        info == GetLocalRepoInfo(lines)
    IN IF l.err # "" THEN {[err |-> l.err, creds |-> NoCreds, load |-> l, info |-> info]}
       ELSE {[err |-> r.err, creds |-> r.creds, load |-> l, info |-> info] :
                r \in ResolveProfile(l.store, override, info)}

-----------------------------------------------------------------------------
(* Scope matching and tool registration *)

OAuthScopes ==
    {"repository", "repository:write", "repository:admin",
     "pullrequest", "pullrequest:write", "pipeline", "pipeline:write",
     "issue", "issue:write"}

TokenScopeNames ==
    {"read:repository:bitbucket", "write:repository:bitbucket", "admin:repository:bitbucket",
     "read:pullrequest:bitbucket", "write:pullrequest:bitbucket", "admin:pullrequest:bitbucket",
     "read:pipeline:bitbucket", "write:pipeline:bitbucket", "admin:pipeline:bitbucket",
     "read:issue:bitbucket", "write:issue:bitbucket", "admin:issue:bitbucket"}

\* every raw scope a token may carry, in both dialects, and one unrelated scope
RawScopes == OAuthScopes \cup TokenScopeNames \cup {"account"}

\* the registered tools, in registration order
ToolNames ==
    <<"manage_workspaces", "manage_repositories", "manage_refs", "manage_commits",
      "manage_pull_requests", "manage_pr_comments", "manage_source",
      "manage_pipelines", "manage_issues">>

AllTools == {ToolNames[i] : i \in 1..Len(ToolNames)}

getToolRequiredScope(toolName) ==
    CASE toolName = "manage_workspaces" -> {}
      [] toolName \in {"manage_repositories", "manage_refs", "manage_commits",
                       "manage_source"} -> {"repository"}
      [] toolName \in {"manage_pull_requests", "manage_pr_comments"} -> {"pullrequest"}
      [] toolName = "manage_pipelines" -> {"pipeline"}
      [] toolName = "manage_issues" -> {"issue"}
      [] OTHER -> {}

\* the switch on req inside hasRequiredScope: ts stands in for req
ScopeImplies(ts, req) ==
    CASE req = "repository" ->
           ts \in {"repository:write", "repository:admin", "read:repository:bitbucket",
                   "write:repository:bitbucket", "admin:repository:bitbucket"}
      [] req = "repository:write" ->
           ts \in {"repository:admin", "write:repository:bitbucket",
                   "admin:repository:bitbucket"}
      [] req = "repository:admin" -> ts = "admin:repository:bitbucket"
      [] req = "pullrequest" ->
           ts \in {"pullrequest:write", "read:pullrequest:bitbucket",
                   "write:pullrequest:bitbucket"}
      [] req = "pullrequest:write" -> ts = "write:pullrequest:bitbucket"
      [] req = "pipeline" ->
           ts \in {"pipeline:write", "read:pipeline:bitbucket",
                   "write:pipeline:bitbucket"}
      [] req = "pipeline:write" -> ts = "write:pipeline:bitbucket"
      [] req = "issue" ->
           ts \in {"issue:write", "read:issue:bitbucket", "write:issue:bitbucket"}
      [] req = "issue:write" -> ts = "write:issue:bitbucket"
      [] OTHER -> FALSE

\* a gate that refuses when the token's scopes are unknown
hasRequiredScope_FailClosed(scopes, req) ==
    IF req = {} THEN TRUE
    ELSE \E r \in req : \E ts \in scopes : ts = r \/ ScopeImplies(ts, r)

\* a gate that knows only the exact scope
hasRequiredScope_ExactOnly(scopes, req) ==
    IF req = {} THEN TRUE
    ELSE IF scopes = {} THEN TRUE
    ELSE \E r \in req : \E ts \in scopes : ts = r

\* a gate that gives up at the first scope of the token that does not match
hasRequiredScope_EveryScope(scopes, req) ==
    IF req = {} THEN TRUE
    ELSE IF scopes = {} THEN TRUE
    ELSE \E r \in req : \A ts \in scopes : ts = r \/ ScopeImplies(ts, r)

hasRequiredScope(scopes, req) ==
    IF req = {} THEN TRUE
    ELSE IF scopes = {} THEN TRUE
    ELSE \E r \in req : \E ts \in scopes : ts = r \/ ScopeImplies(ts, r)

\* BITBUCKET_DISABLED_TOOLS is held as a sequence of pieces: a word, a
\* space " " or a comma ",".  A string is the concatenation of its pieces.
Comma == ","
Space == " "

RECURSIVE Split(_)
\* strings.Split(s, ","): the sequence of the pieces between commas
Split(s) ==
    IF \A i \in 1..Len(s) : s[i] # Comma THEN <<s>>
    ELSE LET k == CHOOSE i \in 1..Len(s) :
                    s[i] = Comma /\ \A j \in 1..(i - 1) : s[j] # Comma
         IN <<SubSeq(s, 1, k - 1)>> \o Split(SubSeq(s, k + 1, Len(s)))

RECURSIVE TrimLeft(_)
TrimLeft(s) == IF s # <<>> /\ Head(s) = Space THEN TrimLeft(Tail(s)) ELSE s

RECURSIVE TrimRight(_)
TrimRight(s) ==
    IF s # <<>> /\ s[Len(s)] = Space THEN TrimRight(SubSeq(s, 1, Len(s) - 1)) ELSE s

\* strings.TrimSpace
TrimSpace(s) == TrimRight(TrimLeft(s))

\* the keys of the `disabled` map built by registerTools
DisabledKeys(disabledToolsEnv) ==
    IF disabledToolsEnv = <<>> THEN {}
    ELSE {TrimSpace(Split(disabledToolsEnv)[i]) : i \in 1..Len(Split(disabledToolsEnv))}

\* disabled[tool.Name]
IsDisabled(disabled, toolName) == <<toolName>> \in disabled

\* a registration that does not look at the deny-list
addTool_IgnoresDenyList(tools, disabled, scopes, toolName) ==
    IF ~hasRequiredScope(scopes, getToolRequiredScope(toolName)) THEN tools
    ELSE tools \cup {toolName}

\* addTool: the server's tools after the call
addTool(tools, disabled, scopes, toolName) ==
    IF IsDisabled(disabled, toolName) THEN tools
    ELSE IF ~hasRequiredScope(scopes, getToolRequiredScope(toolName)) THEN tools
    ELSE tools \cup {toolName}

RECURSIVE AddTools(_, _, _, _)
AddTools(tools, disabled, scopes, i) ==
    IF i > Len(ToolNames) THEN tools
    ELSE AddTools(addTool(tools, disabled, scopes, ToolNames[i]), disabled, scopes, i + 1)

\* registerTools: the tools the server exposes
registerTools(disabledToolsEnv, scopes) ==
    AddTools({}, DisabledKeys(disabledToolsEnv), scopes, 1)

-----------------------------------------------------------------------------
(* MCP tool handlers: the API method a request reaches, "" for an error result *)

ManageWorkspacesHandler(action, args) ==
    CASE action = "list" -> "ListWorkspaces"
      [] action = "get" -> IF args.workspace = "" THEN "" ELSE "GetWorkspace"
      [] OTHER -> ""

ManageRepositoriesHandler(action, args) ==
    CASE action = "list" -> "ListRepositories"
      [] action = "get" ->
           IF args.workspace = "" \/ args.repo_slug = "" THEN "" ELSE "GetRepository"
      [] action = "create" ->
           IF args.workspace = "" \/ args.repo_slug = "" THEN "" ELSE "CreateRepository"
      [] action = "delete" ->
           IF args.workspace = "" \/ args.repo_slug = "" THEN "" ELSE "DeleteRepository"
      [] OTHER -> ""

\* the handler a registered tool was bound to
ToolHandler(tool, action, args) ==
    IF tool = "manage_workspaces" THEN ManageWorkspacesHandler(action, args)
    ELSE ManageRepositoriesHandler(action, args)

\* a request handler that registers the tools anew, as if no scope were known
Handle_Reregisters(sv, e, rq) ==
    [server |-> [sv EXCEPT !.tools = AddTools({}, DisabledKeys(e.BITBUCKET_DISABLED_TOOLS), {}, 1),
                           !.scopeLookups = sv.scopeLookups + 1],
     call |-> [tool |-> rq.tool, action |-> rq.action,
               api |-> IF rq.tool \notin sv.tools THEN ""
                       ELSE ToolHandler(rq.tool, rq.action, rq.args)]]

\* a tools/call request handled by server sv: the API call made through the
\* client the handlers were bound to at registration, and the server after it
Handle(sv, e, rq) ==
    [server |-> sv,
     call |-> [tool |-> rq.tool, action |-> rq.action,
               api |-> IF rq.tool \notin sv.tools THEN ""
                       ELSE ToolHandler(rq.tool, rq.action, rq.args)]]

-----------------------------------------------------------------------------
(* Clients and process invocations *)

\* bitbucket.NewClient(username, password, token)
NewClient(username, password, token) ==
    [username |-> username, password |-> password, token |-> token]

\* a nil *Client
NoClient == NewClient("<nil>", "<nil>", "<nil>")

\* the authenticator for a stored profile: Basic for an API token, Bearer for OAuth
NewClientFromCredentials(creds) ==
    IF IsAPIToken(creds) THEN NewClient(creds.Email, creds.APIToken, "")
    ELSE NewClient("", "", creds.AccessToken)

\* RefreshOAuth: the refreshed record and the file it persists; an error and
\* nothing changed when the token endpoint refuses
RefreshOAuth(f, creds, t, reply) ==
    IF ~reply.ok THEN [err |-> "refresh failed", creds |-> creds, file |-> f]
    ELSE LET fresh == [creds EXCEPT !.AccessToken = reply.access_token,
                                    !.ExpiresIn = reply.expires_in,
                                    !.CreatedAt = t]
         IN [err |-> "", creds |-> fresh, file |-> SaveProfile(f, fresh)]

\* token != "" || (username != "" && password != "")
HasEnvCredential(e) ==
    e.BITBUCKET_ACCESS_TOKEN # ""
    \/ (e.BITBUCKET_USERNAME # "" /\ e.BITBUCKET_API_TOKEN # "")

NoEnv ==
    [BBKT_PROFILE |-> "", BITBUCKET_ACCESS_TOKEN |-> "", BITBUCKET_USERNAME |-> "",
     BITBUCKET_API_TOKEN |-> "", BITBUCKET_DISABLED_TOOLS |-> <<>>]

\* LoadProfileStore was not called
NotLoaded == [err |-> "<not called>", store |-> NoStore]

\* refreshes: the RefreshOAuth calls made, in order; clients: the clients
\* `profile refresh` built, by profile; expired: the answer of IsExpired;
\* flow: the interactive login the invocation ran; grants, fewer: the answers
\* of hasRequiredScope, by capability, for two sets of scopes
NoResult ==
    [err |-> "", creds |-> NoCreds, client |-> NoClient, report |-> "", exit |-> 0,
     refreshes |-> <<>>, clients |-> [n \in {} |-> NoClient], expired |-> FALSE,
     flow |-> "", grants |-> [c \in {} |-> FALSE], fewer |-> [c \in {} |-> FALSE]]

\* warning: what registerTools wrote to stderr; scopeLookups: its calls of
\* Client.Scopes
NoServer ==
    [running |-> FALSE, client |-> NoClient, tools |-> {}, warning |-> "",
     scopeLookups |-> 0]

\* nothing was passed; file: the credentials file the call found; name: the
\* profile named on the command line; listings: what ListWorkspaces answered,
\* by profile; scopes: a second set of granted scopes
NoArg ==
    [store |-> NoStore, creds |-> NoCreds, file |-> AbsentFile, name |-> "",
     listings |-> [n \in {} |-> ""], scopes |-> {}]

\* no process is saving a profile
NoWriters == [p \in {} |-> ""]

\* no tool request was made
NoCall == [tool |-> "", action |-> "", api |-> ""]

Loaded(l) == [err |-> l.err, store |-> l.store]

\* an error path that reports nothing and goes on
NotAuthenticated_GoesOn(err) == [NoResult EXCEPT !.err = err]

\* getClient when LoadCredentials fails: the message on stderr and os.Exit(1)
NotAuthenticated(err) ==
    [NoResult EXCEPT !.err = err, !.exit = 1,
                     !.report = "Not authenticated. Run 'bbkt auth' first."]

\* getClient: every outcome of building the CLI's API client
getClient(f, e, lines, t, reply) ==
    IF HasEnvCredential(e)
    THEN {[file |-> f, localRepo |-> GetLocalRepoInfo(lines), loaded |-> NotLoaded,
           res |-> [NoResult EXCEPT
                      !.client = NewClient(e.BITBUCKET_USERNAME, e.BITBUCKET_API_TOKEN,
                                           e.BITBUCKET_ACCESS_TOKEN)]]}
    ELSE {LET Out(f2, r2) == [file |-> f2, localRepo |-> r.info,
                              loaded |-> Loaded(r.load), res |-> r2]
              creds == r.creds
          IN IF r.err # ""
             THEN Out(r.load.file, NotAuthenticated(r.err))
             ELSE IF IsAPIToken(creds)
             THEN Out(r.load.file,
                      [NoResult EXCEPT !.creds = creds,
                                       !.client = NewClient(creds.Email, creds.APIToken, "")])
             ELSE IF IsOAuth(creds)
             THEN IF IsExpired(creds, t)
                  THEN LET rr == RefreshOAuth(r.load.file, creds, t, reply)
                       IN IF rr.err # ""
                          THEN Out(rr.file,
                                   [NoResult EXCEPT !.err = rr.err, !.creds = creds, !.exit = 1,
                                      !.refreshes = <<[name |-> creds.ProfileName, ok |-> FALSE]>>,
                                      !.report = "Failed to refresh oauth token. Run 'bbkt auth' again."])
                          ELSE Out(rr.file,
                                   [NoResult EXCEPT !.creds = rr.creds,
                                      !.refreshes = <<[name |-> creds.ProfileName, ok |-> TRUE]>>,
                                      !.client = NewClient("", "", rr.creds.AccessToken)])
                  ELSE Out(r.load.file,
                           [NoResult EXCEPT !.creds = creds,
                                            !.client = NewClient("", "", creds.AccessToken)])
             ELSE Out(r.load.file, [NoResult EXCEPT !.creds = creds])
          : r \in LoadCredentials(f, e.BBKT_PROFILE, lines)}

\* runStatus: every report of `bbkt status`
runStatus(f, e, lines, t) ==
    {LET Out(r2) == [file |-> r.load.file, localRepo |-> r.info,
                     loaded |-> Loaded(r.load), res |-> r2]
         creds == r.creds
     IN IF r.err # ""
        THEN IF e.BITBUCKET_ACCESS_TOKEN # ""
             THEN Out([NoResult EXCEPT !.report =
                         "Authenticated via BITBUCKET_ACCESS_TOKEN environment variable"])
             ELSE IF e.BITBUCKET_USERNAME # "" /\ e.BITBUCKET_API_TOKEN # ""
             THEN Out([NoResult EXCEPT !.report =
                         "Authenticated via BITBUCKET_USERNAME + BITBUCKET_API_TOKEN environment variables"])
             ELSE Out([NoResult EXCEPT !.report = "Not authenticated. Run: bbkt auth"])
        ELSE IF IsAPIToken(creds)
        THEN Out([NoResult EXCEPT !.creds = creds,
                                  !.report = "Authenticated via API Token (Basic Auth)"])
        ELSE IF IsOAuth(creds)
        THEN Out([NoResult EXCEPT !.creds = creds,
                    !.report = IF IsExpired(creds, t)
                               THEN "Authenticated via OAuth 2.0 (Bearer Auth): expired (will auto-refresh)"
                               ELSE "Authenticated via OAuth 2.0 (Bearer Auth): valid"])
        ELSE Out([NoResult EXCEPT !.creds = creds])
     : r \in LoadCredentials(f, e.BBKT_PROFILE, lines)}

\* what Client.Scopes returned: the scopes of the token, or an error and none
ScopesOf(scopes) == [err |-> "", scopes |-> scopes]
ScopesFailed == [err |-> "fetching token scopes", scopes |-> {}]

ScopesWarning == "Warning: failed to fetch token scopes for introspection"

\* a start that gives up when the token's scopes cannot be fetched
newServer_StopsWithoutScopes(client, e, lookup) ==
    IF lookup.err # "" THEN [NoServer EXCEPT !.warning = ScopesWarning]
    ELSE [running |-> TRUE, client |-> client,
          tools |-> registerTools(e.BITBUCKET_DISABLED_TOOLS, lookup.scopes),
          warning |-> "", scopeLookups |-> 1]

\* newServer: the server over a client whose Scopes call returned `lookup`
newServer(client, e, lookup) ==
    [running |-> TRUE, client |-> client,
     tools |-> registerTools(e.BITBUCKET_DISABLED_TOOLS, lookup.scopes),
     warning |-> IF lookup.err # "" THEN ScopesWarning ELSE "",
     scopeLookups |-> 1]

\* runServer: every outcome of starting `bbkt mcp`
runServer(f, e, lines, lookup) ==
    IF HasEnvCredential(e)
    THEN {[file |-> f, localRepo |-> GetLocalRepoInfo(lines), loaded |-> NotLoaded,
           res |-> [NoResult EXCEPT
                      !.client = NewClient(e.BITBUCKET_USERNAME, e.BITBUCKET_API_TOKEN,
                                           e.BITBUCKET_ACCESS_TOKEN),
                      !.report = newServer(NoClient, e, lookup).warning],
           server |-> newServer(NewClient(e.BITBUCKET_USERNAME, e.BITBUCKET_API_TOKEN,
                                          e.BITBUCKET_ACCESS_TOKEN), e, lookup)]}
    ELSE {LET Out(r2, sv) == [file |-> r.load.file, localRepo |-> r.info,
                              loaded |-> Loaded(r.load), res |-> r2, server |-> sv]
              creds == r.creds
          IN IF r.err # ""
             THEN Out([NoResult EXCEPT !.err = r.err, !.exit = 1,
                                       !.report = "No credentials found."], NoServer)
             ELSE IF IsAPIToken(creds) \/ IsOAuth(creds)
             THEN Out([NoResult EXCEPT !.creds = creds,
                                       !.client = NewClientFromCredentials(creds),
                                       !.report = newServer(NoClient, e, lookup).warning],
                      newServer(NewClientFromCredentials(creds), e, lookup))
             ELSE Out([NoResult EXCEPT !.creds = creds, !.exit = 1,
                         !.report = "Unknown auth type in stored credentials"], NoServer)
          : r \in LoadCredentials(f, e.BBKT_PROFILE, lines)}

\* a removal that reports a missing file as an error
RemoveCredentials_StrictRemove(f) ==
    IF f.kind = "absent" THEN [err |-> "remove: no such file or directory", file |-> f]
    ELSE [err |-> "", file |-> AbsentFile]

\* RemoveCredentials: os.Remove, a missing file is no error
RemoveCredentials(f) == [err |-> "", file |-> AbsentFile]

\* runLogout
runLogout(f) ==
    LET r == RemoveCredentials(f)
    IN [file |-> r.file, localRepo |-> NotConsulted, loaded |-> NotLoaded,
        res |-> IF r.err # ""
                THEN [NoResult EXCEPT !.err = r.err, !.exit = 1,
                                      !.report = "error removing credentials"]
                ELSE [NoResult EXCEPT !.report = "Logged out. Credentials removed."]]

\* a `profile use` that does not look the name up
profileUse_Unchecked(f, name) ==
    LET l == LoadProfileStore(f)
        Out(f2, r2) == [file |-> f2, localRepo |-> NotConsulted, loaded |-> Loaded(l),
                        res |-> r2]
    IN IF l.err # ""
       THEN Out(l.file, [NoResult EXCEPT !.err = l.err, !.report = "Error loading profiles."])
       ELSE Out(SaveProfileStore([l.store EXCEPT !.ActiveProfile = name]),
                [NoResult EXCEPT !.report = "Default profile set"])

\* bbkt profile use <name>
profileUse(f, name) ==
    LET l == LoadProfileStore(f)
        Out(f2, r2) == [file |-> f2, localRepo |-> NotConsulted, loaded |-> Loaded(l),
                        res |-> r2]
    IN IF l.err # ""
       THEN Out(l.file, [NoResult EXCEPT !.err = l.err, !.report = "Error loading profiles."])
       ELSE IF name \notin DOMAIN l.store.Profiles
       THEN Out(l.file, [NoResult EXCEPT !.err = "profile not found", !.exit = 1,
                                         !.report = "Profile not found."])
       ELSE Out(SaveProfileStore([l.store EXCEPT !.ActiveProfile = name]),
                [NoResult EXCEPT !.report = "Default profile set"])

\* the orders in which a range over a map with keys S can visit them
Orders(S) ==
    {q \in [1..Cardinality(S) -> S] : \A i, j \in 1..Cardinality(S) : q[i] = q[j] => i = j}

\* the keys of q that are in S, in the order of q
RECURSIVE Visited(_, _)
Visited(q, S) ==
    IF q = <<>> THEN <<>>
    ELSE (IF Head(q) \in S THEN <<Head(q)>> ELSE <<>>) \o Visited(Tail(q), S)

\* FetchAccessibleWorkspaces: the slugs of the listing, none when
\* ListWorkspaces failed
FetchAccessibleWorkspaces(listing) ==
    IF listing.err = "" THEN listing.values ELSE <<>>

\* bbkt profile refresh: every outcome.  replies: what the token endpoint
\* answers for each profile; listings: what ListWorkspaces answers
profileRefresh(f, t, replies, listings) ==
    LET l == LoadProfileStore(f)
        names == DOMAIN l.store.Profiles
        Out(f2, r2) == [file |-> f2, localRepo |-> NotConsulted, loaded |-> Loaded(l),
                        res |-> r2]
        Due(n) == IsOAuth(l.store.Profiles[n]) /\ IsExpired(l.store.Profiles[n], t)
        due == {n \in names : Due(n)}
        \* the record after `_ = RefreshOAuth(cred)`
        Cred(n) == IF Due(n)
                   THEN RefreshOAuth(l.file, l.store.Profiles[n], t, replies[n]).creds
                   ELSE l.store.Profiles[n]
        HasClient(n) == IsAPIToken(Cred(n)) \/ IsOAuth(Cred(n))
        Client(n) == IF IsAPIToken(Cred(n))
                     THEN NewClient(Cred(n).Email, Cred(n).APIToken, "")
                     ELSE NewClient("", "", Cred(n).AccessToken)
        store == [l.store EXCEPT !.Profiles =
                    [n \in names |-> IF HasClient(n)
                                     THEN [Cred(n) EXCEPT !.AccessibleWorkspaces =
                                                   FetchAccessibleWorkspaces(listings[n])]
                                     ELSE Cred(n)]]
    IN IF l.err # ""
       THEN {Out(l.file, [NoResult EXCEPT !.err = l.err, !.report = "Error loading profiles."])}
       ELSE {Out(SaveProfileStore(store),
                 [NoResult EXCEPT
                    !.report = "Done.",
                    !.clients = [n \in {m \in names : HasClient(m)} |-> Client(n)],
                    !.refreshes = [i \in DOMAIN Visited(q, due) |->
                                     [name |-> Visited(q, due)[i],
                                      ok |-> replies[Visited(q, due)[i]].ok]]])
             : q \in Orders(names)}

-----------------------------------------------------------------------------
(* Inputs *)

SeqsUpTo(S, n) == UNION {[1..k -> S] : k \in 0..n}

CacheSlugs == {"Acme", "beta"}

\* what FetchAccessibleWorkspaces can return
Caches == SeqsUpTo(CacheSlugs, MaxWorkspaces)
FewCaches == {<<"Acme">>}

\* what `git remote -v` can print
RemoteLines ==
    {NotARepo} \cup SeqsUpTo(Remotes, MaxRemotes)
FewRemoteLines ==
    {NotARepo, <<[host |-> "bitbucket.org", workspace |-> "acme"]>>}

\* values of BBKT_PROFILE, and the environments that set nothing else
Overrides == {"", "work", "default", "ghost"}
ProfileEnvs == {[NoEnv EXCEPT !.BBKT_PROFILE = o] : o \in Overrides}

\* environments with and without a supplied credential
CredentialEnvs ==
    {[NoEnv EXCEPT !.BBKT_PROFILE = o, !.BITBUCKET_ACCESS_TOKEN = tk,
                   !.BITBUCKET_USERNAME = u, !.BITBUCKET_API_TOKEN = pw] :
        o \in {"", "default", "ghost"}, tk \in {"", "env-bearer"},
        u \in {"", "env-user"}, pw \in {"", "env-secret"}}

\* answers of the OAuth token endpoint to a refresh
RefreshReplies ==
    {[ok |-> FALSE, access_token |-> "", expires_in |-> 0],
     [ok |-> TRUE, access_token |-> "access-2", expires_in |-> 300]}

\* hand-written or older files the program may find
LegacyCreds ==
    {ZeroCreds,
     [ZeroCreds EXCEPT !.AuthType = AuthTypeAPIToken, !.Email = "dev@example.com",
                       !.APIToken = "api-secret", !.AccessibleWorkspaces = <<"Acme">>]}

HandWrittenProfile(ws) ==
    [ZeroCreds EXCEPT !.AuthType = AuthTypeAPIToken, !.Email = "dev@example.com",
                      !.APIToken = "api-secret", !.AccessibleWorkspaces = ws]

FoundFiles ==
    {AbsentFile, MalformedFile, StoreFile("", EmptyProfiles),
     StoreFile("ghost", [n \in {"work", "default"} |->
                           HandWrittenProfile(IF n = "work" THEN <<"beta">> ELSE <<>>)])}
    \cup {LegacyFile(c) : c \in LegacyCreds}

RECURSIVE SetsUpTo(_, _)
\* the subsets of U with at most n elements
SetsUpTo(U, n) ==
    IF n = 0 THEN {{}}
    ELSE LET P == SetsUpTo(U, n - 1) IN P \cup {S \cup {x} : S \in P, x \in U}

\* what Client.Scopes can report for a token ({} also when the lookup fails)
ScopeSets == SetsUpTo(RawScopes, MaxScopes)

\* the capabilities hasRequiredScope can be asked for, and none
Capabilities == {{c} : c \in OAuthScopes} \cup {{}}

ServerScopes ==
    {"repository", "write:repository:bitbucket", "read:pullrequest:bitbucket",
     "pipeline:write", "admin:issue:bitbucket", "account"}
ServerScopeSets == SetsUpTo(ServerScopes, MaxScopes)

\* values of BITBUCKET_DISABLED_TOOLS
Pieces ==
    {Comma, Space, "manage_workspaces", "manage_repositories", "delete_repository"}
DisabledValues == SeqsUpTo(Pieces, MaxDisabledLen)

\* environments of `bbkt mcp` runs
ServeEnvs ==
    {[NoEnv EXCEPT !.BITBUCKET_ACCESS_TOKEN = tk, !.BITBUCKET_DISABLED_TOOLS = d] :
        tk \in {"", "env-bearer"},
        d \in {<<>>, <<"delete_repository">>,
               <<"delete_repository", Comma, "delete_branch">>,
               <<"manage_repositories">>, <<"manage_workspaces", Comma, Space, "manage_issues">>}}

\* names of stored profiles
StoreNames == {"default", "work"}

\* an OAuth record as a login leaves it: its access token lasts `expiresIn`
OAuthRecord(name, createdAt, expiresIn) ==
    [ZeroCreds EXCEPT !.ProfileName = name, !.AuthType = AuthTypeOAuth,
                      !.CreatedAt = createdAt, !.AccessToken = "access-1",
                      !.RefreshToken = "refresh-1", !.ExpiresIn = expiresIn,
                      !.Scopes = "repository pullrequest"]

\* records handed to SaveProfile
SavedRecords ==
    {[HandWrittenProfile(<<"Acme">>) EXCEPT !.ProfileName = n] : n \in StoreNames \cup {""}}
    \cup {OAuthRecord(n, 0, 0) : n \in StoreNames \cup {""}}

\* records of an in-memory store: the ProfileName field need not be the key
MemoryRecords ==
    {[HandWrittenProfile(<<"Acme">>) EXCEPT !.ProfileName = n] : n \in {"", "work"}}
    \cup {OAuthRecord(n, 0, 300) : n \in {"", "work"}}

\* in-memory stores handed to SaveProfileStore
StoreValues ==
    {[ActiveProfile |-> a, Profiles |-> p] :
        a \in {"", "work", "ghost"},
        p \in UNION {[K -> MemoryRecords] : K \in SUBSET StoreNames}}

\* what ListWorkspaces answers for the profiles of a store (a listing or an
\* error), and what the token endpoint answers for them
ListingsFor(names) ==
    [names -> {[err |-> "", values |-> <<>>], [err |-> "", values |-> <<"Acme">>],
               [err |-> "401 Unauthorized", values |-> <<>>]}]
RepliesFor(names) == [names -> RefreshReplies]

\* records asked whether they are expired: of either kind or of none, made
\* at some second, the OAuth lifetime within MaxDrift of the 5-minute buffer
DatedRecords ==
    {[ZeroCreds EXCEPT !.AuthType = k, !.CreatedAt = c, !.ExpiresIn = x] :
        k \in {AuthTypeOAuth, AuthTypeAPIToken, ""},
        c \in 0..MaxDrift,
        x \in (ExpiryBufferSecs - MaxDrift)..(ExpiryBufferSecs + MaxDrift)}

\* stores of OAuth profiles whose access tokens are about to expire
ExpiringFiles ==
    {AbsentFile}
    \cup {StoreFile("default", [n \in K |-> MarshalCreds(OAuthRecord(n, 0, ExpiryBufferSecs))]) :
            K \in {{"default"}, {"default", "work"}}}

\* environments and scope lookups of a long-lived `bbkt mcp`
LongLivedEnvs ==
    {NoEnv,
     [NoEnv EXCEPT !.BITBUCKET_ACCESS_TOKEN = "env-bearer",
                   !.BITBUCKET_DISABLED_TOOLS = <<"manage_repositories">>]}
LongLivedScopeSets == {{}, {"account"}}

\* requests sent to a long-lived server
FewToolRequests ==
    {[tool |-> "manage_workspaces", action |-> "list",
      args |-> [workspace |-> "", repo_slug |-> ""]],
     [tool |-> "manage_repositories", action |-> "get",
      args |-> [workspace |-> "acme", repo_slug |-> "site"]],
     [tool |-> "manage_repositories", action |-> "delete",
      args |-> [workspace |-> "acme", repo_slug |-> "site"]]}

\* tool requests a client of the server can send
ToolRequests ==
    [tool : {"manage_workspaces", "manage_repositories"},
     action : {"list", "get", "create", "delete", "purge"},
     args : [workspace : {"", "acme"}, repo_slug : {"", "site"}]]

-----------------------------------------------------------------------------
(* Actions: one process invocation each *)

\* what an invocation leaves, its arguments aside
Outcome(c, e, o) ==
    /\ cmd' = c
    /\ env' = e
    /\ file' = o.file
    /\ localRepo' = o.localRepo
    /\ loaded' = o.loaded
    /\ res' = o.res
    /\ required' = {}
    /\ granted' = FALSE
    /\ inflight' = {}
    /\ writers' = NoWriters

Invocation(c, e, o) ==
    /\ Outcome(c, e, o)
    /\ arg' = NoArg

\* the invocation is not `bbkt mcp`: the process serves nothing
NotServing ==
    /\ server' = NoServer
    /\ tokenScopes' = {}
    /\ lastCall' = NoCall

Tick ==
    /\ now < MaxClock
    /\ now' = now + 1
    /\ UNCHANGED <<file, cmd, env, localRepo, loaded, res, tokenScopes, required,
                   granted, server, lastCall, arg, inflight, writers>>

\* bbkt auth --profile <name>: APITokenLogin
APITokenLogin(names, caches) ==
    \E profileName \in names, ws \in caches, verified \in BOOLEAN :
        LET creds == [ZeroCreds EXCEPT
                        !.ProfileName = profileName, !.AuthType = AuthTypeAPIToken,
                        !.CreatedAt = now, !.Email = "dev@example.com",
                        !.APIToken = "api-secret",
                        !.Scopes = "read:repository:bitbucket",
                        !.AccessibleWorkspaces = ws]
        IN /\ Invocation("auth", NoEnv,
                [file |-> IF verified THEN SaveProfile(file, creds) ELSE file,
                 localRepo |-> NotConsulted, loaded |-> NotLoaded,
                 res |-> IF verified THEN [NoResult EXCEPT !.flow = "api_token"]
                         ELSE [NoResult EXCEPT !.err = "credential verification failed",
                                               !.exit = 1, !.flow = "api_token"]])
           /\ NotServing
           /\ UNCHANGED now

\* bbkt auth --oauth --profile <name>: OAuthLogin
OAuthLogin(names, caches) ==
    \E profileName \in names, ws \in caches :
        LET creds == [ZeroCreds EXCEPT
                        !.ProfileName = profileName, !.AuthType = AuthTypeOAuth,
                        !.CreatedAt = now, !.AccessToken = "access-1",
                        !.RefreshToken = "refresh-1", !.ExpiresIn = 300,
                        !.Scopes = "repository pullrequest",
                        !.AccessibleWorkspaces = ws]
        IN /\ Invocation("auth --oauth", NoEnv,
                [file |-> SaveProfile(file, creds),
                 localRepo |-> NotConsulted, loaded |-> NotLoaded,
                 res |-> [NoResult EXCEPT !.flow = "oauth"]])
           /\ NotServing
           /\ UNCHANGED now

\* one process invocation that records the credentials file it found
InvocationOn(c, e, o) ==
    /\ Outcome(c, e, o)
    /\ arg' = [NoArg EXCEPT !.file = file]
    /\ NotServing
    /\ UNCHANGED now

\* bbkt logout: RemoveCredentials
RunLogout == InvocationOn("logout", NoEnv, runLogout(file))

\* a call of LoadCredentials
LoadCredentialsIn(envs, lineSets) ==
    \E e \in envs, lines \in lineSets :
        \E r \in LoadCredentials(file, e.BBKT_PROFILE, lines) :
            /\ Invocation("LoadCredentials", e,
                  [file |-> r.load.file, localRepo |-> r.info, loaded |-> Loaded(r.load),
                   res |-> [NoResult EXCEPT !.err = r.err, !.creds = r.creds]])
            /\ NotServing
            /\ UNCHANGED now

LoadCredentialsCall == LoadCredentialsIn(ProfileEnvs, RemoteLines)

\* a call of LoadProfileStore
LoadProfileStoreCall ==
    LET l == LoadProfileStore(file)
    IN InvocationOn("LoadProfileStore", NoEnv,
          [file |-> l.file, localRepo |-> NotConsulted, loaded |-> Loaded(l),
           res |-> [NoResult EXCEPT !.err = l.err]])

\* a call of SaveProfile
SaveProfileCall ==
    \E creds \in SavedRecords :
        /\ Outcome("SaveProfile", NoEnv,
              [file |-> SaveProfile(file, creds), localRepo |-> NotConsulted,
               loaded |-> Loaded(LoadProfileStore(file)), res |-> NoResult])
        /\ arg' = [NoArg EXCEPT !.creds = creds, !.file = file]
        /\ NotServing
        /\ UNCHANGED now

\* SaveProfileStore of a store, then LoadProfileStore
SaveThenLoad ==
    \E store \in StoreValues :
        LET l == LoadProfileStore(SaveProfileStore(store))
        IN /\ Outcome("SaveProfileStore, LoadProfileStore", NoEnv,
                 [file |-> l.file, localRepo |-> NotConsulted, loaded |-> Loaded(l),
                  res |-> [NoResult EXCEPT !.err = l.err]])
           /\ arg' = [NoArg EXCEPT !.store = store, !.file = file]
           /\ NotServing
           /\ UNCHANGED now

\* bbkt profile use <name>
ProfileUse ==
    \E name \in StoreNames \cup {"ghost"} :
        /\ Outcome("profile use", NoEnv, profileUse(file, name))
        /\ arg' = [NoArg EXCEPT !.file = file, !.name = name]
        /\ NotServing
        /\ UNCHANGED now

\* bbkt profile refresh
ProfileRefresh ==
    \E replies \in RepliesFor(DOMAIN LoadProfileStore(file).store.Profiles),
       listings \in ListingsFor(DOMAIN LoadProfileStore(file).store.Profiles) :
        \E o \in profileRefresh(file, now, replies, listings) :
            /\ Outcome("profile refresh", NoEnv, o)
            /\ arg' = [NoArg EXCEPT !.file = file, !.listings = listings]
            /\ NotServing
            /\ UNCHANGED now

\* a call of Credentials.IsExpired
IsExpiredCall ==
    /\ cmd = "none"
    /\ cmd' = "IsExpired"
    /\ res' = [NoResult EXCEPT !.expired = IsExpired(arg.creds, now)]
    /\ UNCHANGED <<file, now, env, localRepo, loaded, tokenScopes, required,
                   granted, server, lastCall, arg, inflight, writers>>

\* any CLI command that talks to the API: getClient
GetClient ==
    \E e \in CredentialEnvs, lines \in FewRemoteLines, reply \in RefreshReplies :
        \E o \in getClient(file, e, lines, now, reply) :
            /\ Invocation("getClient", e, o)
            /\ NotServing
            /\ UNCHANGED now

\* bbkt status
RunStatus ==
    \E e \in CredentialEnvs, lines \in FewRemoteLines :
        \E o \in runStatus(file, e, lines, now) :
            /\ Invocation("status", e, o)
            /\ NotServing
            /\ UNCHANGED now

\* bbkt mcp
RunServer(envs, scopeSets) ==
    \E e \in envs, lines \in FewRemoteLines,
       lookup \in {ScopesOf(scopes) : scopes \in scopeSets} \cup {ScopesFailed} :
        \E o \in runServer(file, e, lines, lookup) :
            /\ Invocation("mcp", e, o)
            /\ server' = o.server
            /\ tokenScopes' = IF o.server.running THEN lookup.scopes ELSE {}
            /\ lastCall' = NoCall
            /\ UNCHANGED now

\* a tools/call request to the running server: only a registered tool has a
\* handler to run
CallTool ==
    /\ server.running
    /\ \E rq \in ToolRequests :
          lastCall' =
            [tool |-> rq.tool, action |-> rq.action,
             api |-> IF rq.tool \notin server.tools THEN ""
                     ELSE IF rq.tool = "manage_workspaces"
                     THEN ManageWorkspacesHandler(rq.action, rq.args)
                     ELSE ManageRepositoriesHandler(rq.action, rq.args)]
    /\ UNCHANGED <<file, now, cmd, env, localRepo, loaded, res, tokenScopes, required,
                   granted, server, arg, inflight, writers>>

\* the running server receives a tools/call request
ReceiveRequest ==
    /\ server.running
    /\ Cardinality(inflight) < MaxInflight
    /\ \E rq \in FewToolRequests :
          inflight' = inflight \cup {[rq |-> rq, tools |-> server.tools,
                                      client |-> server.client]}
    /\ UNCHANGED <<file, now, cmd, env, localRepo, loaded, res, tokenScopes, required,
                   granted, server, lastCall, arg, writers>>

\* the running server answers one of the requests it is handling
AnswerRequest ==
    /\ server.running
    /\ \E r \in inflight :
          /\ lastCall' = Handle(server, env, r.rq).call
          /\ server' = Handle(server, env, r.rq).server
          /\ inflight' = inflight \ {r}
    /\ UNCHANGED <<file, now, cmd, env, localRepo, loaded, res, tokenScopes, required,
                   granted, arg, writers>>

\* another process rewrites, damages or removes the credentials file
StoreChanges ==
    /\ file' \in {AbsentFile, MalformedFile,
                   StoreFile("default", [n \in {"default"} |-> HandWrittenProfile(<<>>)])}
    /\ file' # file
    /\ UNCHANGED <<now, cmd, env, localRepo, loaded, res, tokenScopes, required,
                   granted, server, lastCall, arg, inflight, writers>>

\* a call of hasRequiredScope
HasRequiredScopeCall ==
    /\ cmd = "none"
    /\ cmd' = "hasRequiredScope"
    /\ granted' = hasRequiredScope(tokenScopes, required)
    /\ UNCHANGED <<file, now, env, localRepo, loaded, res, tokenScopes, required,
                   server, lastCall, arg, inflight, writers>>

\* hasRequiredScope asked for every capability, for the token's scopes and
\* for a part of them
GateCall ==
    /\ cmd = "none"
    /\ cmd' = "hasRequiredScope, every capability"
    /\ res' = [NoResult EXCEPT
                 !.grants = [c \in OAuthScopes |-> hasRequiredScope(tokenScopes, {c})],
                 !.fewer = [c \in OAuthScopes |-> hasRequiredScope(arg.scopes, {c})]]
    /\ UNCHANGED <<file, now, env, localRepo, loaded, tokenScopes, required,
                   granted, server, lastCall, arg, inflight, writers>>

\* a call of registerTools on a new server
RegisterToolsCall ==
    /\ cmd = "none"
    /\ cmd' = "registerTools"
    /\ server' = newServer(NewClient("", "", "env-bearer"), env, ScopesOf(tokenScopes))
    /\ UNCHANGED <<file, now, env, localRepo, loaded, res, tokenScopes, required,
                   granted, lastCall, arg, inflight, writers>>

-----------------------------------------------------------------------------
(* Entry points over the stored profiles and the environment *)

InitIdle ==
    /\ now = 0
    /\ cmd = "none"
    /\ env = NoEnv
    /\ localRepo = NotConsulted
    /\ loaded = NotLoaded
    /\ res = NoResult
    /\ tokenScopes = {}
    /\ required = {}
    /\ granted = FALSE
    /\ server = NoServer
    /\ lastCall = NoCall
    /\ arg = NoArg
    /\ inflight = {}
    /\ writers = NoWriters

Init ==
    /\ file \in FoundFiles
    /\ InitIdle

Next ==
    \/ Tick
    \/ APITokenLogin({"default", ""}, FewCaches)
    \/ OAuthLogin({"default"}, FewCaches)
    \/ RunLogout
    \/ GetClient
    \/ RunStatus
    \/ RunServer(CredentialEnvs, {{}, {"pullrequest"}})

Spec == Init /\ [][Next]_vars

-----------------------------------------------------------------------------
(* Profile resolution over stores of several profiles *)

NextResolve ==
    \/ APITokenLogin({"work", "default"}, Caches)
    \/ RunLogout
    \/ LoadCredentialsCall

SpecResolve == Init /\ [][NextResolve]_vars

-----------------------------------------------------------------------------
(* Scope matching: the arguments are drawn, then the function is applied *)

InitScope ==
    /\ file = AbsentFile
    /\ now = 0
    /\ cmd = "none"
    /\ env = NoEnv
    /\ localRepo = NotConsulted
    /\ loaded = NotLoaded
    /\ res = NoResult
    /\ tokenScopes \in ScopeSets
    /\ required \in Capabilities
    /\ granted = FALSE
    /\ server = NoServer
    /\ lastCall = NoCall
    /\ arg = NoArg
    /\ inflight = {}
    /\ writers = NoWriters

NextScope == HasRequiredScopeCall

SpecScope == InitScope /\ [][NextScope]_vars

\* the token's scopes and a part of them are drawn, then the gate is asked
\* for every capability
InitGrants ==
    /\ file = AbsentFile
    /\ now = 0
    /\ cmd = "none"
    /\ env = NoEnv
    /\ localRepo = NotConsulted
    /\ loaded = NotLoaded
    /\ res = NoResult
    /\ tokenScopes \in ScopeSets
    /\ required = {}
    /\ granted = FALSE
    /\ server = NoServer
    /\ lastCall = NoCall
    /\ arg \in {[NoArg EXCEPT !.scopes = S] : S \in SUBSET tokenScopes}
    /\ inflight = {}
    /\ writers = NoWriters

NextGrants == GateCall

SpecGrants == InitGrants /\ [][NextGrants]_vars

-----------------------------------------------------------------------------
(* Tool registration: the deny-list and the scopes are drawn, then the tools
   are registered *)

InitTools ==
    /\ file = AbsentFile
    /\ now = 0
    /\ cmd = "none"
    /\ env \in {[NoEnv EXCEPT !.BITBUCKET_DISABLED_TOOLS = d] : d \in DisabledValues}
    /\ localRepo = NotConsulted
    /\ loaded = NotLoaded
    /\ res = NoResult
    /\ tokenScopes \in ServerScopeSets
    /\ required = {}
    /\ granted = FALSE
    /\ server = NoServer
    /\ lastCall = NoCall
    /\ arg = NoArg
    /\ inflight = {}
    /\ writers = NoWriters

NextTools == RegisterToolsCall

SpecTools == InitTools /\ [][NextTools]_vars

-----------------------------------------------------------------------------
(* A running MCP server: one `bbkt mcp` process and the requests it gets *)

InitServe ==
    /\ file \in {AbsentFile,
                  StoreFile("default", [n \in {"default"} |-> HandWrittenProfile(<<>>)])}
    /\ InitIdle

StartServer ==
    /\ cmd = "none"
    /\ RunServer(ServeEnvs, ServerScopeSets)

NextServe ==
    \/ StartServer
    \/ CallTool

SpecServe == InitServe /\ [][NextServe]_vars

-----------------------------------------------------------------------------
(* The credential store: its functions and the profile commands *)

\* entries of a profiles object written by hand: records of either kind, or
\* null
HandWrittenEntries ==
    {MarshalCreds(HandWrittenProfile(<<"Acme">>)), MarshalCreds(OAuthRecord("", 0, 300)),
     NoCreds}

\* credentials files that are valid JSON or not, written by hand or by an
\* older version: a key of the profiles object may be the empty string
HandWrittenFiles ==
    {AbsentFile, MalformedFile}
    \cup {LegacyFile(c) : c \in LegacyCreds}
    \cup {StoreFile(a, p) :
            a \in {"", "work"},
            p \in UNION {[K -> HandWrittenEntries] : K \in SUBSET {"", "default", "work"}}}

\* LoadProfileStore on whatever file it finds
InitLoad ==
    /\ file \in HandWrittenFiles
    /\ InitIdle

NextLoad == LoadProfileStoreCall

SpecLoad == InitLoad /\ [][NextLoad]_vars

\* the store's functions and the profile commands, from no file at all
InitActive ==
    /\ file = AbsentFile
    /\ InitIdle

NextActive ==
    \/ SaveProfileCall
    \/ ProfileUse
    \/ LoadProfileStoreCall
    \/ ProfileRefresh
    \/ RunLogout

SpecActive == InitActive /\ [][NextActive]_vars

NextStore ==
    \/ LoadProfileStoreCall
    \/ SaveProfileCall
    \/ SaveThenLoad
    \/ LoadCredentialsIn({NoEnv}, FewRemoteLines)
    \/ RunLogout
    \/ ProfileUse
    \/ ProfileRefresh

SpecStore == Init /\ [][NextStore]_vars

-----------------------------------------------------------------------------
(* Expiry: the record and the time are drawn, then the record is asked *)

InitExpiry ==
    /\ file = AbsentFile
    /\ now \in 0..(2 * MaxDrift)
    /\ cmd = "none"
    /\ env = NoEnv
    /\ localRepo = NotConsulted
    /\ loaded = NotLoaded
    /\ res = NoResult
    /\ tokenScopes = {}
    /\ required = {}
    /\ granted = FALSE
    /\ server = NoServer
    /\ lastCall = NoCall
    /\ arg \in {[NoArg EXCEPT !.creds = c] : c \in DatedRecords}
    /\ inflight = {}
    /\ writers = NoWriters

NextExpiry == IsExpiredCall

SpecExpiry == InitExpiry /\ [][NextExpiry]_vars

-----------------------------------------------------------------------------
(* OAuth refresh: invocations over profiles whose tokens expire *)

InitRefresh ==
    /\ file \in ExpiringFiles
    /\ InitIdle

NextRefresh ==
    \/ Tick
    \/ OAuthLogin(StoreNames, FewCaches)
    \/ GetClient
    \/ ProfileRefresh
    \/ RunServer({NoEnv}, {{}})

SpecRefresh == InitRefresh /\ [][NextRefresh]_vars

-----------------------------------------------------------------------------
(* A long-lived MCP server: requests overlap, the clock runs and other
   processes change the credentials file *)

InitLongLived ==
    /\ file \in ExpiringFiles
    /\ InitIdle

StartLongLived ==
    /\ cmd = "none"
    /\ RunServer(LongLivedEnvs, LongLivedScopeSets)

NextLongLived ==
    \/ StartLongLived
    \/ ReceiveRequest
    \/ AnswerRequest
    \/ StoreChanges
    \/ Tick

SpecLongLived == InitLongLived /\ [][NextLongLived]_vars

-----------------------------------------------------------------------------
(* Properties of the credential store (SpecStore) *)

\* the operations that load the store
StoreReaders ==
    {"LoadProfileStore", "LoadCredentials", "SaveProfile", "profile use", "profile refresh"}

\* C11: when the credentials file is malformed JSON, each operation that
\* loads the store (LoadProfileStore, LoadCredentials, SaveProfile, profile
\* use, profile refresh) ends with an error and leaves the file as it was.
C11_MalformedStoreIsFatal ==
    [][(file = MalformedFile /\ cmd' \in StoreReaders)
          => (file' = file /\ res'.err # "")]_vars

\* the store SaveProfile started from: what is on disk, read as a store
PreviousActive ==
    CASE arg.file.kind = "store" -> arg.file.active
      [] arg.file.kind = "legacy" -> "default"
      [] OTHER -> ""

PreviousProfiles ==
    CASE arg.file.kind = "store" -> arg.file.profiles
      [] arg.file.kind = "legacy" -> [n \in {"default"} |-> MarshalCreds(arg.file.bare)]
      [] OTHER -> EmptyProfiles

\* the name SaveProfile stores its argument under
SavedName == IF arg.creds.ProfileName = "" THEN "default" ELSE arg.creds.ProfileName

\* C12: SaveProfile(record) on a store that loads, or on no file, leaves
\* the previous store with profiles[record.name] set to the record (name
\* "default" for an empty name): the other profiles are as they were, and
\* activeProfile becomes the record's name exactly when it was unset.
C12_SaveProfileFrame ==
    (cmd = "SaveProfile" /\ arg.file.kind # "malformed")
        => /\ res.err = ""
           /\ file.kind = "store"
           /\ DOMAIN file.profiles = DOMAIN PreviousProfiles \cup {SavedName}
           /\ \A f \in DOMAIN arg.creds \ {"ProfileName"} :
                 file.profiles[SavedName][f] = arg.creds[f]
           /\ \A n \in DOMAIN PreviousProfiles \ {SavedName} :
                 file.profiles[n] = PreviousProfiles[n]
           /\ PreviousActive = "" => file.active = SavedName
           /\ PreviousActive # "" => file.active = PreviousActive

\* C12 happens: a record with an empty name replaces profile "default" of a
\* two-profile store whose activeProfile is set to neither
C12_Witness ==
    /\ cmd = "SaveProfile"
    /\ arg.creds.ProfileName = ""
    /\ arg.file.kind = "store"
    /\ DOMAIN arg.file.profiles = {"default", "work"}
    /\ arg.file.active = "ghost"
    /\ file.profiles["default"] # arg.file.profiles["default"]
    /\ file.profiles["work"] = arg.file.profiles["work"]
    /\ file.active = "ghost"

\* C13: SaveProfileStore of any store followed by LoadProfileStore returns
\* the same activeProfile, the same profile keys and records equal field by
\* field, but for profileName, which is the key the record is stored under.
C13_RoundTrip ==
    cmd = "SaveProfileStore, LoadProfileStore"
        => /\ loaded.err = ""
           /\ loaded.store.ActiveProfile = arg.store.ActiveProfile
           /\ DOMAIN loaded.store.Profiles = DOMAIN arg.store.Profiles
           /\ \A n \in DOMAIN arg.store.Profiles :
                 /\ loaded.store.Profiles[n].ProfileName = n
                 /\ \A f \in DOMAIN ZeroCreds \ {"ProfileName"} :
                       loaded.store.Profiles[n][f] = arg.store.Profiles[n][f]

\* C13 happens: a store of two profiles, an OAuth one among them, whose
\* records carry names other than their keys and whose activeProfile names
\* no profile, came back with the keys as names
C13_Witness ==
    /\ cmd = "SaveProfileStore, LoadProfileStore"
    /\ arg.store.ActiveProfile = "ghost"
    /\ DOMAIN arg.store.Profiles = {"default", "work"}
    /\ arg.store.Profiles["default"].ProfileName = "work"
    /\ IsOAuth(arg.store.Profiles["default"])
    /\ arg.store.Profiles["work"].ProfileName = ""
    /\ loaded.store.Profiles["default"].ProfileName = "default"
    /\ loaded.store.Profiles["work"].ProfileName = "work"

\* C14: LoadProfileStore on a legacy file returns the one-profile store
\* whose only key and activeProfile are "default" and rewrites the file in
\* the new format; the next load returns the same store and leaves the file.
C14_LegacyMigrationIdempotent ==
    [][/\ (file.kind = "legacy" /\ cmd' = "LoadProfileStore")
            => /\ loaded'.err = ""
               /\ loaded'.store =
                    [ActiveProfile |-> "default",
                     Profiles |-> [n \in {"default"} |->
                                     [file.bare EXCEPT !.ProfileName = "default"]]]
               /\ file'.kind = "store"
       /\ (cmd = "LoadProfileStore" /\ arg.file.kind = "legacy"
             /\ cmd' = "LoadProfileStore")
            => /\ loaded' = loaded
               /\ file' = file]_vars

\* C14 happens: a load found the new-format file that the migration of a
\* legacy file `{}` had written, and returned the migrated store again
C14_Witness ==
    /\ cmd = "LoadProfileStore"
    /\ arg.file.kind = "store"
    /\ arg.file = file
    /\ loaded.store =
          [ActiveProfile |-> "default",
           Profiles |-> [n \in {"default"} |-> [ZeroCreds EXCEPT !.ProfileName = "default"]]]

\* C15: RemoveCredentials succeeds whether or not the file exists and leaves
\* no file, so two removals in a row both succeed; LoadProfileStore and
\* LoadCredentials after it report that the file cannot be read.
C15_RemoveIsIdempotent ==
    [][/\ cmd' = "logout"
            => /\ res'.err = "" /\ res'.exit = 0
               /\ file' = AbsentFile
       /\ (cmd = "logout" /\ cmd' \in {"LoadProfileStore", "LoadCredentials"})
            => /\ loaded'.err = "reading credentials file"
               /\ res'.err # "" /\ res'.creds = NoCreds
               /\ file' = AbsentFile]_vars

\* C15 happens: a removal that found no file succeeded
C15_Witness ==
    /\ cmd = "logout"
    /\ arg.file = AbsentFile
    /\ file = AbsentFile
    /\ res.err = "" /\ res.exit = 0

-----------------------------------------------------------------------------
(* Properties of expiry (SpecExpiry) *)

\* C16: IsExpired is false for every record that is not OAuth; for an OAuth
\* record it is true exactly when now >= createdAt + expiresIn - 5 minutes,
\* that instant itself included.
C16_ExpiredFromTheBufferInstant ==
    cmd = "IsExpired"
        => (res.expired <=>
              /\ IsOAuth(arg.creds)
              /\ now >= (arg.creds.CreatedAt + arg.creds.ExpiresIn) - ExpiryBufferSecs)

-----------------------------------------------------------------------------
(* Properties of OAuth refresh (SpecRefresh) *)

\* profile n of the loaded store l was OAuth and expired at time t
WasDue(l, n, t) ==
    /\ l.err = ""
    /\ n \in DOMAIN l.store.Profiles
    /\ IsOAuth(l.store.Profiles[n]) /\ IsExpired(l.store.Profiles[n], t)

\* C17: an invocation (getClient, runServer, profile refresh) performs at
\* most one OAuth refresh; getClient, for a resolved record that is OAuth
\* and expired, refreshes before it builds the client, which carries the
\* access token the refresh returned.
C17_RefreshOnceBeforeUse ==
    [][/\ cmd' \in {"getClient", "mcp", "profile refresh"} => Len(res'.refreshes) <= 1
       /\ (cmd' = "getClient" /\ now' = now /\ res'.client # NoClient
             /\ WasDue(loaded', res'.creds.ProfileName, now))
            => /\ res'.refreshes = <<[name |-> res'.creds.ProfileName, ok |-> TRUE]>>
               /\ res'.client.token = res'.creds.AccessToken
               /\ res'.creds.CreatedAt = now]_vars

\* a refresh of the invocation failed
RefreshFailed == \E i \in DOMAIN res.refreshes : ~res.refreshes[i].ok

\* C18: when an OAuth refresh fails, the invocation ends with an error that
\* asks for re-authentication, does not try again, and builds no client from
\* the stale access token of the expired record.
C18_RefreshFailureIsFatal ==
    (cmd \in {"getClient", "profile refresh"} /\ RefreshFailed)
        => /\ res.err # "" /\ res.exit = 1
           /\ Len(res.refreshes) = 1
           /\ res.client = NoClient
           /\ DOMAIN res.clients = {}

-----------------------------------------------------------------------------
(* Properties of profile resolution (SpecResolve) *)

ResolvedByLoadCredentials == cmd = "LoadCredentials"

Override == env.BBKT_PROFILE

StoreLoaded == loaded.err = ""

ProfileKeys == DOMAIN loaded.store.Profiles

\* a and b are the same workspace slug up to letter case
SameIgnoringCase(a, b) == a = b \/ {a, b} = {"acme", "Acme"}

\* the profiles of the loaded store whose cache lists the local workspace
CacheHolders ==
    {n \in ProfileKeys :
        /\ localRepo.err = ""
        /\ \E i \in DOMAIN loaded.store.Profiles[n].AccessibleWorkspaces :
              SameIgnoringCase(loaded.store.Profiles[n].AccessibleWorkspaces[i],
                               localRepo.workspace)}

\* C1: LoadCredentials with a non-empty BBKT_PROFILE that names no profile of
\* the store fails with the "override profile not found" error and returns
\* no profile, whatever the store holds.
C1_MissingOverrideFails ==
    (ResolvedByLoadCredentials /\ Override # "" /\ Override \notin ProfileKeys)
        => /\ res.creds = NoCreds
           /\ res.err # ""
           /\ StoreLoaded => res.err = "override profile not found in store"

\* C1 happens: the override names no profile while the local workspace is in
\* a profile's cache and activeProfile names an existing profile
C1_Witness ==
    /\ ResolvedByLoadCredentials /\ StoreLoaded
    /\ Override = "ghost" /\ Override \notin ProfileKeys
    /\ CacheHolders # {}
    /\ loaded.store.ActiveProfile \in ProfileKeys
    /\ res.err = "override profile not found in store"

\* C2: when BBKT_PROFILE names a profile of the store, LoadCredentials
\* returns exactly that profile, whatever the local workspace and
\* activeProfile are.
C2_OverrideWins ==
    (ResolvedByLoadCredentials /\ StoreLoaded /\ Override # "" /\ Override \in ProfileKeys)
        => /\ res.err = ""
           /\ res.creds = loaded.store.Profiles[Override]
           /\ res.creds.ProfileName = Override

\* C2 happens: the override is returned although another profile's cache
\* holds the local workspace, its own does not, and it is not the active one
C2_Witness ==
    /\ ResolvedByLoadCredentials /\ StoreLoaded
    /\ Override \in ProfileKeys
    /\ CacheHolders # {} /\ Override \notin CacheHolders
    /\ loaded.store.ActiveProfile # Override
    /\ res.creds.ProfileName = Override

C4_DefaultThenAny ==
    (ResolvedByLoadCredentials /\ StoreLoaded /\ Override = "" /\ CacheHolders = {})
        => /\ loaded.store.ActiveProfile \in ProfileKeys
                => res.err = "" /\ res.creds = loaded.store.Profiles[loaded.store.ActiveProfile]
           /\ (loaded.store.ActiveProfile \notin ProfileKeys /\ ProfileKeys # {})
                => res.err = "" /\ \E n \in ProfileKeys : res.creds = loaded.store.Profiles[n]

\* C4 happens: activeProfile names no profile of a store of two profiles
C4_Witness ==
    /\ ResolvedByLoadCredentials /\ StoreLoaded /\ Override = "" /\ CacheHolders = {}
    /\ loaded.store.ActiveProfile \notin ProfileKeys
    /\ Cardinality(ProfileKeys) = 2
    /\ res.err = "" /\ res.creds.ProfileName \in ProfileKeys

-----------------------------------------------------------------------------
(* Properties of the entry points (Spec) *)

\* the invocation found no profile: no store file, or a store without profiles
NoProfileExists ==
    \/ loaded.err = "reading credentials file"
    \/ StoreLoaded /\ ProfileKeys = {}

\* C5: when no profile exists at all, LoadCredentials returns an error and no
\* record, and getClient (which asks LoadCredentials when the environment
\* supplies no credential) ends the invocation as "not authenticated" and
\* builds no client.
C5_NoProfileNotAuthenticated ==
    (cmd = "getClient" /\ ~HasEnvCredential(env) /\ NoProfileExists)
        => /\ res.err # ""
           /\ res.creds = NoCreds
           /\ res.client = NoClient
           /\ res.exit = 1
           /\ res.report = "Not authenticated. Run 'bbkt auth' first."

\* C5 happens: getClient finds a store file whose profiles map is empty
C5_Witness ==
    /\ cmd = "getClient" /\ ~HasEnvCredential(env)
    /\ StoreLoaded /\ ProfileKeys = {}
    /\ file.kind = "store"
    /\ res.exit = 1 /\ res.client = NoClient

\* the credential the environment supplies
EnvClient ==
    NewClient(env.BITBUCKET_USERNAME, env.BITBUCKET_API_TOKEN, env.BITBUCKET_ACCESS_TOKEN)

\* what `bbkt status` says of a credential taken from the environment
EnvReports ==
    {"Authenticated via BITBUCKET_ACCESS_TOKEN environment variable",
     "Authenticated via BITBUCKET_USERNAME + BITBUCKET_API_TOKEN environment variables"}

\* C6: when the environment supplies a credential, getClient, runServer and
\* the status command use or report it whatever the store file holds and
\* whatever BBKT_PROFILE is: no stored profile shows in the outcome.
C6_EnvironmentOutranksStore ==
    (cmd \in {"getClient", "mcp", "status"} /\ HasEnvCredential(env))
        => /\ res.creds = NoCreds
           /\ cmd \in {"getClient", "mcp"} => res.client = EnvClient
           /\ cmd = "mcp" => server.client = EnvClient
           /\ cmd = "status" => res.report \in EnvReports

-----------------------------------------------------------------------------
(* Properties of scope matching (SpecScope) *)

\* the equivalence table: the raw scopes that satisfy a capability
SatisfyingScopes(c) ==
    CASE c = "repository" ->
           {"repository", "repository:write", "repository:admin",
            "read:repository:bitbucket", "write:repository:bitbucket",
            "admin:repository:bitbucket"}
      [] c = "repository:write" ->
           {"repository:write", "repository:admin", "write:repository:bitbucket",
            "admin:repository:bitbucket"}
      [] c = "repository:admin" -> {"repository:admin", "admin:repository:bitbucket"}
      [] c = "pullrequest" ->
           {"pullrequest", "pullrequest:write", "read:pullrequest:bitbucket",
            "write:pullrequest:bitbucket"}
      [] c = "pullrequest:write" -> {"pullrequest:write", "write:pullrequest:bitbucket"}
      [] c = "pipeline" ->
           {"pipeline", "pipeline:write", "read:pipeline:bitbucket",
            "write:pipeline:bitbucket"}
      [] c = "pipeline:write" -> {"pipeline:write", "write:pipeline:bitbucket"}
      [] c = "issue" ->
           {"issue", "issue:write", "read:issue:bitbucket", "write:issue:bitbucket"}
      [] c = "issue:write" -> {"issue:write", "write:issue:bitbucket"}

\* C7: hasRequiredScope answers true for every required capability,
\* repository:admin included, when the token's granted-scope list is empty.
C7_FailOpen ==
    (cmd = "hasRequiredScope" /\ tokenScopes = {}) => granted

\* C7 happens: repository:admin was asked of a token with no known scope
C7_Witness ==
    /\ cmd = "hasRequiredScope"
    /\ tokenScopes = {}
    /\ required = {"repository:admin"}
    /\ granted

\* C8: for a non-empty granted-scope set and each of the nine capabilities,
\* hasRequiredScope is true exactly when the set holds the capability's own
\* tag or a raw scope of its row of the table; write:repository:bitbucket
\* alone grants repository read and write and not repository admin.
C8_EquivalenceTable ==
    (cmd = "hasRequiredScope" /\ tokenScopes # {} /\ required # {})
        => /\ granted <=> \E c \in required :
                             tokenScopes \cap ({c} \cup SatisfyingScopes(c)) # {}
           /\ tokenScopes = {"write:repository:bitbucket"}
                => (granted <=> required \in {{"repository"}, {"repository:write"}})

\* C8 happens: write:repository:bitbucket alone was asked for repository:admin
\* and refused
C8_Witness ==
    /\ cmd = "hasRequiredScope"
    /\ tokenScopes = {"write:repository:bitbucket"}
    /\ required = {"repository:admin"}
    /\ ~granted

-----------------------------------------------------------------------------
(* Properties of tool registration (SpecTools, SpecServe) *)

DisabledToolsEnv == env.BITBUCKET_DISABLED_TOOLS

\* name is an entry of the comma-separated list d, spaces around it aside
InDenyList(d, name) ==
    \E i \in 1..Len(d), j \in 1..Len(d) :
        /\ i <= j
        /\ i = 1 \/ d[i - 1] = Comma
        /\ j = Len(d) \/ d[j + 1] = Comma
        /\ \E k \in i..j : /\ d[k] = name
                             /\ \A m \in (i..j) \ {k} : d[m] = Space

\* C9: registerTools registers exactly the tools that are not in the
\* deny-list and whose required capability the token scopes grant; a tool
\* that requires none is granted whatever the scopes; an omitted tool raises
\* no error.
C9_RegisteredTools ==
    cmd = "registerTools"
        => /\ server.running
           /\ res.err = "" /\ res.exit = 0
           /\ server.tools =
                {t \in AllTools :
                    /\ ~InDenyList(DisabledToolsEnv, t)
                    /\ hasRequiredScope(tokenScopes, getToolRequiredScope(t))}
           /\ "manage_workspaces" \in server.tools
                <=> ~InDenyList(DisabledToolsEnv, "manage_workspaces")

\* C9 happens: a tool whose capability is granted is omitted for being in the
\* deny-list (written with a space after the comma), another for its scope
C9_Witness ==
    /\ cmd = "registerTools"
    /\ DisabledToolsEnv = <<"manage_workspaces", Comma, Space, "manage_repositories">>
    /\ tokenScopes = {"write:repository:bitbucket"}
    /\ server.tools = {"manage_refs", "manage_commits", "manage_source"}

\* C19: when the fetch of the token's scopes fails at server start, the
\* start goes on with a warning: every tool that the deny-list does not name
\* is registered and every tool it names is not.
C19_ScopesFailureFailsOpen ==
    (cmd = "mcp" /\ res.report = ScopesWarning)
        => /\ res.exit = 0
           /\ server.running
           /\ server.tools = {t \in AllTools : ~InDenyList(DisabledToolsEnv, t)}

\* C19 happens: the scopes could not be fetched and the server runs with
\* all the tools but the two of the deny-list
C19_Witness ==
    /\ cmd = "mcp"
    /\ res.report = ScopesWarning
    /\ server.running
    /\ DisabledToolsEnv = <<"manage_workspaces", Comma, Space, "manage_issues">>
    /\ server.tools = AllTools \ {"manage_workspaces", "manage_issues"}

\* C20: a running server fetched the token's scopes once, at its start;
\* afterwards its client and its tools never change, whatever happens to the
\* credentials file and to the token's validity, and every request it
\* handles, in whatever order, meets the same client and tools.
C20_ServerIsImmutable ==
    [][server.running
          => /\ server' = server
             /\ tokenScopes' = tokenScopes
             /\ server.scopeLookups = 1
             /\ \A r \in inflight' :
                   r.tools = server'.tools /\ r.client = server'.client]_vars

\* C20 happens: the server started on an OAuth profile that has expired
\* since, the credentials file was damaged, one request was answered and
\* two more are being handled
C20_Witness ==
    /\ server.running
    /\ server.scopeLookups = 1
    /\ IsOAuth(res.creds) /\ IsExpired(res.creds, now)
    /\ file = MalformedFile
    /\ lastCall.api = "GetRepository"
    /\ Cardinality(inflight) = 2

\* C10: when BITBUCKET_DISABLED_TOOLS names delete_repository, no tool of the
\* running server lets a request delete a repository.
C10_DeleteRepositoryDenied ==
    (server.running /\ InDenyList(DisabledToolsEnv, "delete_repository"))
        => lastCall.api # "DeleteRepository"

-----------------------------------------------------------------------------
(* Two processes saving profiles at the same time *)

\* the processes that run SaveProfile, and the records each may save: the
\* two never save under the same name
Savers == {"p1", "p2"}
SaverRecords ==
    [p \in Savers |->
        IF p = "p1"
        THEN {[HandWrittenProfile(<<"Acme">>) EXCEPT !.ProfileName = "work"],
              OAuthRecord("work", 0, 0)}
        ELSE {[HandWrittenProfile(<<"beta">>) EXCEPT !.ProfileName = "ci"],
              OAuthRecord("", 0, 0)}]

\* a process that has not called LoadProfileStore yet; data: the bytes it
\* marshalled; order: its place among the writes
NotStarted == [pc |-> "start", data |-> AbsentFile, order |-> 0]

\* a write that keeps the profiles of the file it replaces
WriteFile_KeepsOthers(f, data) ==
    IF f.kind = "store" /\ data.kind = "store"
    THEN StoreFile(data.active,
                   [n \in DOMAIN f.profiles \cup DOMAIN data.profiles |->
                      IF n \in DOMAIN data.profiles THEN data.profiles[n]
                      ELSE f.profiles[n]])
    ELSE data

\* os.WriteFile: the data replaces whatever the file held
WriteFile(f, data) == data

\* SaveProfile up to its call of SaveProfileStore: the process loads the
\* store (a legacy file is migrated on the way) and puts its record in
SaverLoads(p) ==
    /\ writers[p].pc = "start"
    /\ \E creds \in SaverRecords[p] :
          writers' = [writers EXCEPT ![p] = [pc |-> "loaded",
                                             data |-> SaveProfile(file, creds),
                                             order |-> 0]]
    /\ file' = LoadProfileStore(file).file
    /\ UNCHANGED <<now, cmd, env, localRepo, loaded, res, tokenScopes, required,
                   granted, server, lastCall, arg, inflight>>

\* SaveProfileStore: the process writes the store it built
SaverWrites(p) ==
    /\ writers[p].pc = "loaded"
    /\ file' = WriteFile(file, writers[p].data)
    /\ writers' =
         [writers EXCEPT ![p] =
            [pc |-> "written", data |-> writers[p].data,
             order |-> 1 + Cardinality({q \in Savers : writers[q].pc = "written"})]]
    /\ UNCHANGED <<now, cmd, env, localRepo, loaded, res, tokenScopes, required,
                   granted, server, lastCall, arg, inflight>>

InitRace ==
    /\ file \in FoundFiles
    /\ now = 0
    /\ cmd = "none"
    /\ env = NoEnv
    /\ localRepo = NotConsulted
    /\ loaded = NotLoaded
    /\ res = NoResult
    /\ tokenScopes = {}
    /\ required = {}
    /\ granted = FALSE
    /\ server = NoServer
    /\ lastCall = NoCall
    /\ arg = NoArg
    /\ inflight = {}
    /\ writers = [p \in Savers |-> NotStarted]

NextRace ==
    \/ \E p \in Savers : SaverLoads(p)
    \/ \E p \in Savers : SaverWrites(p)

SpecRace == InitRace /\ [][NextRace]_vars

\* both processes have written
AllWritten == \A p \in Savers : writers[p].pc = "written"

\* the process that wrote last
LastWriter == CHOOSE p \in Savers : writers[p].order = Cardinality(Savers)

\* C21: when two processes have run SaveProfile for different names at the
\* same time, in whatever order their loads and writes fell, the file is
\* exactly the store the last writer wrote, never a mix of the two.
C21_LastWriterWins ==
    AllWritten => file = writers[LastWriter].data

\* C21 happens: both loaded before either wrote, p2 wrote last, and the file
\* is p2's store, without the profile p1 saved
C21_Witness ==
    /\ AllWritten
    /\ LastWriter = "p2"
    /\ file = writers["p2"].data
    /\ "work" \in DOMAIN writers["p1"].data.profiles
    /\ "work" \notin DOMAIN file.profiles

-----------------------------------------------------------------------------
(* Properties of the server's start *)

\* C22: `bbkt mcp` started with BITBUCKET_API_TOKEN unset runs the OAuth 2.0
\* browser login.
C22_OmittedTokenStartsOAuthLogin ==
    (cmd = "mcp" /\ env.BITBUCKET_API_TOKEN = "") => res.flow = "oauth"

-----------------------------------------------------------------------------
(* Properties of the gate across capabilities and across scope sets *)

Families == {"repository", "pullrequest", "pipeline", "issue"}

\* the write capability of a family
WriteOf(f) ==
    CASE f = "repository" -> "repository:write"
      [] f = "pullrequest" -> "pullrequest:write"
      [] f = "pipeline" -> "pipeline:write"
      [] OTHER -> "issue:write"

\* C23: for every set of granted scopes, a family's write capability is
\* granted only if its read capability is, and repository admin only if
\* repository write is.
C23_GrantsMonotonicWithinFamily ==
    cmd = "hasRequiredScope, every capability"
        => /\ \A f \in Families : res.grants[WriteOf(f)] => res.grants[f]
           /\ res.grants["repository:admin"] => res.grants["repository:write"]

\* C23 happens: a token with an admin scope on repositories and a write scope
\* on pipelines, and no read scope by name, is granted the read capabilities
\* of both families and nothing of the others
C23_Witness ==
    /\ cmd = "hasRequiredScope, every capability"
    /\ tokenScopes = {"admin:repository:bitbucket", "pipeline:write"}
    /\ res.grants["repository:admin"] /\ res.grants["repository:write"]
    /\ res.grants["repository"]
    /\ res.grants["pipeline:write"] /\ res.grants["pipeline"]
    /\ ~res.grants["issue"] /\ ~res.grants["pullrequest"]

\* C30: every capability granted for a set of scopes is granted for every
\* larger set.
C30_GrantsMonotoneInScopes ==
    cmd = "hasRequiredScope, every capability"
        => \A c \in OAuthScopes : res.fewer[c] => res.grants[c]

\* C30, for tokens whose scopes are known: every capability granted for a
\* non-empty set of scopes is granted for every larger set.
C30_GrantsMonotoneInKnownScopes ==
    (cmd = "hasRequiredScope, every capability" /\ arg.scopes # {})
        => \A c \in OAuthScopes : res.fewer[c] => res.grants[c]

\* C30 happens: a scope is added to a token that had one, and what was
\* granted still is
C30_Witness ==
    /\ cmd = "hasRequiredScope, every capability"
    /\ arg.scopes = {"write:repository:bitbucket"}
    /\ tokenScopes = {"write:repository:bitbucket", "account"}
    /\ res.fewer["repository:write"] /\ res.grants["repository:write"]
    /\ ~res.fewer["issue"] /\ ~res.grants["issue"]

-----------------------------------------------------------------------------
(* Properties of the stored records *)

\* the record has one of the two kinds and only that kind's fields
OneFieldGroup(c) ==
    \/ /\ c.AuthType = AuthTypeAPIToken
       /\ c.Email # "" /\ c.APIToken # ""
       /\ c.AccessToken = "" /\ c.RefreshToken = "" /\ c.Scopes = ""
    \/ /\ c.AuthType = AuthTypeOAuth
       /\ c.AccessToken # ""
       /\ c.Email = "" /\ c.APIToken = ""

\* C24: every record of every store that a login, SaveProfile, LoadProfileStore
\* (with its migration of a legacy file) or a refresh leaves is of kind
\* api_token or oauth and has only that kind's fields: an api_token record
\* has no access token, refresh token or scopes, an oauth record no email or
\* API token.
C24_OneFieldGroupPerRecord ==
    file.kind = "store" => \A n \in DOMAIN file.profiles : OneFieldGroup(file.profiles[n])

\* C25: LoadProfileStore does not crash on any credentials file, and in
\* every store it returns without error each record's ProfileName is
\* non-empty and equal to the key it is stored under.
C25_LoadedNamesAreKeys ==
    cmd = "LoadProfileStore"
        => /\ loaded.err # NilDereference
           /\ loaded.err = ""
                => \A n \in DOMAIN loaded.store.Profiles :
                      /\ loaded.store.Profiles[n].ProfileName = n
                      /\ loaded.store.Profiles[n].ProfileName # ""

\* C26: from no credentials file, whatever SaveProfile, `profile use`,
\* LoadProfileStore, `profile refresh` and RemoveCredentials do in whatever
\* order, a file that holds a profile names one of its profiles as active;
\* and `profile use` of a name the store does not hold fails and leaves the
\* file as it found it.
C26_ActiveProfileIsAKey ==
    /\ (file.kind = "store" /\ DOMAIN file.profiles # {})
          => file.active \in DOMAIN file.profiles
    /\ (cmd = "profile use" /\ arg.name \notin DOMAIN loaded.store.Profiles)
          => /\ file = arg.file
             /\ res.report \in {"Profile not found.", "Error loading profiles."}
             /\ loaded.err = "" => res.exit = 1

\* C26 happens: `profile use ghost` on a store of two profiles
C26_Witness ==
    /\ cmd = "profile use"
    /\ arg.name = "ghost"
    /\ file.kind = "store"
    /\ DOMAIN file.profiles = {"default", "work"}
    /\ file.active = "work"
    /\ file = arg.file
    /\ res.exit = 1

-----------------------------------------------------------------------------
(* Properties of the workspace cache *)

\* C29: after `bbkt profile refresh`, a profile whose workspace listing
\* failed has the AccessibleWorkspaces it had before; only the profiles whose
\* listing succeeded have a new cache.
C29_FailedListingKeepsCache ==
    (cmd = "profile refresh" /\ loaded.err = "")
        => \A n \in DOMAIN arg.listings :
              arg.listings[n].err # ""
                 => file.profiles[n].AccessibleWorkspaces
                       = loaded.store.Profiles[n].AccessibleWorkspaces

-----------------------------------------------------------------------------
(* Properties of what a running server lets a token do *)

\* the API methods that create, change or delete a repository
RepositoryWrites == {"CreateRepository", "DeleteRepository"}

\* C27: when the token's scopes are known and grant the read capability on
\* repositories but not the write capability, no request to the running
\* server creates or deletes a repository.
C27_ReadOnlyTokenCannotWrite ==
    (/\ server.running
     /\ tokenScopes # {}
     /\ tokenScopes \cap SatisfyingScopes("repository") # {}
     /\ tokenScopes \cap SatisfyingScopes("repository:write") = {})
        => lastCall.api \notin RepositoryWrites

\* C28: whatever record LoadCredentials returns, of kind api_token, oauth or
\* neither, getClient ends the invocation with an error or returns a client;
\* it never returns a nil client.
C28_GetClientNeverNil ==
    cmd = "getClient" => (res.exit = 1 \/ res.client # NoClient)

====
